---- MODULE Spec2Model ----
(***************************************************************************)
(* Model of the speaker-diarization service: the /speaker-diarization      *)
(* handler (scripts/app.py), the chunked transcription pipeline            *)
(* (scripts/speech_to_text.py), the retry decorator                        *)
(* (scripts/openai_decorator.py) and dialogue extraction                   *)
(* (scripts/text_analysis.py).                                             *)
(*                                                                         *)
(* Strings are sequences of one-character strings.  Temporary files are    *)
(* records [path, by]; a path stands for resources/audios/<uuid4>.wav and  *)
(* uuid4() is a counter that never repeats.                                *)
(***************************************************************************)
EXTENDS Integers, Sequences, FiniteSets, TLC

---------------------------------------------------------------------------
(* Bounds of the model *)

\* largest number of speech regions voice-activity detection returns
MaxSegments == 2
\* largest number of consecutive rate-limit signals of the chat service
MaxRateLimits == 1
\* longest per-segment text of the join specification
MaxLen == 2
\* largest number of per-segment texts of the join specification
MaxPieces == 3

---------------------------------------------------------------------------
(* Program constants *)

\* @retry_on_openai_errors(max_retry=7)
max_retry == 7
\* Whisper.__init__(chunk_seconds=120) and the except branch of the clamp
DefaultChunkSeconds == 120
ClampLow == 10
ClampHigh == 600

\* the classes the decorator's except clause names
RetryableErrors ==
    {"APITimeoutError", "APIError", "APIConnectionError",
     "InternalServerError", "BadRequestError", "RateLimitError"}

\* the methods class Whisper defines
WhisperMethods ==
    {"__init__", "_clamp_chunk_seconds", "vad_audiotok",
     "_convert_to_wav_mono_16k", "audio_process", "transcribe",
     "transcribe_raw", "transcribe_chunked"}

---------------------------------------------------------------------------
(* Strings *)

Digits == {"0", "1", "2", "3", "4", "5", "6", "7", "8", "9"}

DigitVal ==
    ("0" :> 0) @@ ("1" :> 1) @@ ("2" :> 2) @@ ("3" :> 3) @@ ("4" :> 4) @@
    ("5" :> 5) @@ ("6" :> 6) @@ ("7" :> 7) @@ ("8" :> 8) @@ ("9" :> 9)

IsSpace(c) == c \in {" ", "\n", "\t"}

RECURSIVE LStrip(_)
LStrip(s) ==
    IF s # <<>> /\ IsSpace(Head(s)) THEN LStrip(Tail(s)) ELSE s

RECURSIVE RStrip(_)
RStrip(s) ==
    IF s # <<>> /\ IsSpace(s[Len(s)])
    THEN RStrip(SubSeq(s, 1, Len(s) - 1))
    ELSE s

\* str.strip()
Strip(s) == LStrip(RStrip(s))

RECURSIVE DigitsValue(_, _)
DigitsValue(s, acc) ==
    IF s = <<>> THEN acc
    ELSE DigitsValue(Tail(s), 10 * acc + DigitVal[Head(s)])

\* int(str): surrounding whitespace, one optional sign, decimal digits
PyInt(s) ==
    LET t    == Strip(s)
        sgn  == t # <<>> /\ Head(t) \in {"+", "-"}
        body == IF sgn THEN Tail(t) ELSE t
        ok   == body # <<>> /\ \A i \in 1..Len(body) : body[i] \in Digits
    IN  IF ok
        THEN [ok |-> TRUE,
              val |-> IF sgn /\ Head(t) = "-"
                      THEN 0 - DigitsValue(body, 0)
                      ELSE DigitsValue(body, 0)]
        ELSE [ok |-> FALSE, val |-> 0]

Max(a, b) == IF a >= b THEN a ELSE b
Min(a, b) == IF a <= b THEN a ELSE b

---------------------------------------------------------------------------
(* Optional values: None, a string, or an integer *)

NoneVal == [tag |-> "none", s |-> <<>>, i |-> 0]
StrVal(str) == [tag |-> "str", s |-> str, i |-> 0]
IntVal(n) == [tag |-> "int", s |-> <<>>, i |-> n]

\* the clamp without its upper limit
ClampWithoutCeiling(v) ==
    LET parsed_value ==
            IF v.tag = "int" THEN v.i
            ELSE IF v.tag = "str" /\ PyInt(v.s).ok THEN PyInt(v.s).val
            ELSE DefaultChunkSeconds
    IN  Max(ClampLow, parsed_value)

\* Whisper._clamp_chunk_seconds: int() of the argument, 120 when that
\* raises TypeError or ValueError, then the clamp to [10, 600]
_clamp_chunk_seconds(v) ==
    LET parsed_value ==
            IF v.tag = "int" THEN v.i
            ELSE IF v.tag = "str" /\ PyInt(v.s).ok THEN PyInt(v.s).val
            ELSE DefaultChunkSeconds
    IN  Max(ClampLow, Min(ClampHigh, parsed_value))

\* Whisper.__init__: default_chunk_seconds from CHUNK_SECONDS or 120
InitDefaultChunkSeconds(envv) ==
    _clamp_chunk_seconds(IF envv.tag = "none"
                         THEN IntVal(DefaultChunkSeconds) ELSE envv)

\* a parse that takes the default where int() raises, as the clamp does
ParseLenient(cs, dflt) ==
    IF cs.tag = "none" \/ ~PyInt(cs.s).ok
    THEN [ok |-> TRUE, val |-> dflt]
    ELSE IF PyInt(cs.s).val <= 0
    THEN [ok |-> TRUE, val |-> PyInt(cs.s).val]
    ELSE [ok |-> TRUE, val |-> _clamp_chunk_seconds(IntVal(PyInt(cs.s).val))]

\* parse_chunk_seconds: the value returned (ok), or the HTTPException 400
\* raised (~ok); dflt is whisper_api.default_chunk_seconds
parse_chunk_seconds(cs, dflt) ==
    IF cs.tag = "none"
    THEN [ok |-> TRUE, val |-> dflt]
    ELSE IF ~PyInt(cs.s).ok
    THEN [ok |-> FALSE, val |-> 0]
    ELSE IF PyInt(cs.s).val <= 0
    THEN [ok |-> TRUE, val |-> PyInt(cs.s).val]
    ELSE [ok |-> TRUE, val |-> _clamp_chunk_seconds(IntVal(PyInt(cs.s).val))]

---------------------------------------------------------------------------
(* Texts and the merge of the per-segment texts *)

RECURSIVE SeqsUpTo(_, _)
\* the sequences over alphabet of length at most n
SeqsUpTo(alphabet, n) ==
    IF n = 0 THEN {<<>>}
    ELSE LET shorter == SeqsUpTo(alphabet, n - 1)
         IN  shorter \cup {Append(s, c) : s \in shorter, c \in alphabet}

RECURSIVE JoinWith(_, _)
\* sep.join(pieces)
JoinWith(sep, pieces) ==
    IF pieces = <<>> THEN <<>>
    ELSE IF Len(pieces) = 1 THEN pieces[1]
    ELSE pieces[1] \o sep \o JoinWith(sep, Tail(pieces))

RECURSIVE StripTruthy(_)
\* [chunk.strip() for chunk in chunks if chunk]
StripTruthy(chunks) ==
    IF chunks = <<>> THEN <<>>
    ELSE IF Head(chunks) # <<>>
    THEN <<Strip(Head(chunks))>> \o StripTruthy(Tail(chunks))
    ELSE StripTruthy(Tail(chunks))

\* " ".join(chunk.strip() for chunk in transcript_chunks if chunk).strip()
MergeChunks(chunks) == Strip(JoinWith(<<" ">>, StripTruthy(chunks)))

RECURSIVE TrimDropEmpty(_)
\* reference: trim every piece, then drop the empty ones
TrimDropEmpty(chunks) ==
    IF chunks = <<>> THEN <<>>
    ELSE IF Strip(Head(chunks)) # <<>>
    THEN <<Strip(Head(chunks))>> \o TrimDropEmpty(Tail(chunks))
    ELSE TrimDropEmpty(Tail(chunks))

\* reference transcript of the specification's data model
ReferenceTranscript(chunks) == JoinWith(<<" ">>, TrimDropEmpty(chunks))

---------------------------------------------------------------------------
(* Inputs *)

\* the chunk_seconds form field: absent, or a string
ChunkSecondsInputs ==
    {NoneVal, StrVal(<<"x">>), StrVal(<<"1", ".", "5">>), StrVal(<<>>),
     StrVal(<<"0">>), StrVal(<<"-", "5">>), StrVal(<<" ", "5", " ">>),
     StrVal(<<"3", "0">>), StrVal(<<"6", "0", "1">>)}

\* the CHUNK_SECONDS environment variable at start-up
EnvInputs == {NoneVal, StrVal(<<"x">>), StrVal(<<"1", "2", "0">>)}

\* the youtube_video_id form field: absent, empty, or an id
VideoIdInputs == {NoneVal, StrVal(<<>>), StrVal(<<"v">>)}

\* the requests followed beyond acquisition: an upload alone with every
\* chunk_seconds, a video id alone, and with chunk_seconds "0" every
\* combination of the two; what happens after acquisition does not read
\* the fields in which the left-out combinations differ
AcquiredRequests ==
    {<<TRUE, NoneVal, cs>> : cs \in ChunkSecondsInputs}
    \cup {<<FALSE, yt, NoneVal>> : yt \in VideoIdInputs}
    \cup {<<af, yt, StrVal(<<"0">>)>> : af \in BOOLEAN, yt \in VideoIdInputs}

\* texts the remote transcription service answers with
Texts == {<<>>, <<"a", " ">>}

\* text the chat-completion service answers with
DialogueText == <<"S", "1", ":">>

InvalidChunkDetail ==
    "Invalid chunk_seconds: must be an integer (use <= 0 to disable backend chunking)."
NoInputDetail == "Provide either audio_file or youtube_video_id"
\* a detail that carries the text of the exception
ExceptionText == "Reached maximum number of retries (7)"

\* raise HTTPException(status_code=500, detail="Internal server error")
InternalDetail == "Internal server error"

---------------------------------------------------------------------------
(* State *)

VARIABLES
    pc,                    \* position of the request in the code
    audio_file,            \* TRUE when the audio_file field is set
    youtube_video_id,      \* the youtube_video_id field
    chunk_seconds,         \* the chunk_seconds field
    default_chunk_seconds, \* whisper_api.default_chunk_seconds
    chosen_chunk_seconds,  \* the value parse_chunk_seconds returned
    files,                 \* the files that exist in resources/audios
    uuid,                  \* number of identifiers uuid4() has produced
    audio_output_path,     \* path of the acquired audio, 0 before
    temp_wav_path,         \* local of transcribe_chunked, 0 is None
    wav_segments,          \* number of segments audio_process returned
    transcript_chunks,     \* texts collected by the segment loop
    retry,                 \* local of the running retry wrapper
    requests,              \* remote requests the running wrapper call made
    failures,              \* retryable errors the remote answered them with
    wrapped,               \* the last finished transcription call
    exc,                   \* the exception caught or propagated last
    vad_max_dur,           \* max_dur handed to auditok.split, 0 before
    vad_result,            \* what segmentation gave: none, raised, empty, speech
    full_transcript,       \* transcript of the request
    rate_limits,           \* rate-limit signals handled by extract_dialogue
    calls,                 \* how often each operation was invoked
    raw_paths,             \* the paths transcribe_raw was invoked on
    response,              \* the response of the request
    history,               \* the history argument of extract_dialogue
    sent,                  \* the messages of the last chat request, <<>> before
    popped,                \* messages as the last messages.pop(1) left them
    other_pc,              \* position of a second transcribe_chunked run
    other_temp,            \* temp_wav_path of the second run, 0 for None
    other_uuid             \* the last value uuid4 gave the second run

vars ==
    <<pc, audio_file, youtube_video_id, chunk_seconds, default_chunk_seconds,
      chosen_chunk_seconds, files, uuid, audio_output_path, temp_wav_path,
      wav_segments, transcript_chunks, retry, requests, failures, wrapped, exc,
      vad_max_dur, vad_result, full_transcript, rate_limits, calls, raw_paths,
      response, history, sent, popped, other_pc, other_temp,
      other_uuid>>

NoCalls ==
    [write_audio |-> 0, download_video |-> 0, transcribe_single_pass |-> 0,
     transcribe_chunked |-> 0, convert |-> 0, audio_process |-> 0,
     vad |-> 0, transcribe |-> 0, transcribe_raw |-> 0, remote |-> 0,
     extract_dialogue |-> 0]

\* uuid4 in the process of the second run gives values above this one, and
\* none that the first run is given
OtherFirstId == 1000

\* extract_dialogue(transcript, history=None); app.py passes no history
NoHistory == [tag |-> "none", l |-> <<>>]
ListVal(l) == [tag |-> "list", l |-> l]

NoResponse == [status |-> 0, detail |-> "", transcript |-> <<>>, dialogue |-> <<>>]
NoException == [type |-> "none", n |-> 0]
NoWrapped == [fn |-> "none", requests |-> 0, failures |-> 0, outcome |-> "none",
              value |-> <<>>, exc |-> NoException]

Init ==
    /\ pc = "idle"
    /\ audio_file = FALSE
    /\ youtube_video_id = NoneVal
    /\ chunk_seconds = NoneVal
    /\ \E envv \in EnvInputs :
           default_chunk_seconds = InitDefaultChunkSeconds(envv)
    /\ chosen_chunk_seconds = 0
    /\ files = {}
    /\ uuid = 0
    /\ audio_output_path = 0
    /\ temp_wav_path = 0
    /\ wav_segments = 0
    /\ transcript_chunks = <<>>
    /\ retry = 0
    /\ requests = 0
    /\ failures = 0
    /\ wrapped = NoWrapped
    /\ exc = NoException
    /\ vad_max_dur = 0
    /\ vad_result = "none"
    /\ full_transcript = <<>>
    /\ rate_limits = 0
    /\ calls = NoCalls
    /\ raw_paths = {}
    /\ response = NoResponse
    /\ history = NoHistory
    /\ sent = <<>>
    /\ popped = <<>>
    /\ other_pc = "absent"
    /\ other_temp = 0
    /\ other_uuid = OtherFirstId

---------------------------------------------------------------------------
(* Helpers of the actions *)

Bump(c, op) == [c EXCEPT ![op] = @ + 1]

\* os.path.exists(path)
Exists(fs, path) == \E f \in fs : f.path = path

\* os.remove(path)
Remove(fs, path) == {f \in fs : f.path # path}

\* a file written at path by the named writer; what was at path is replaced
Created(fs, path, writer) == Remove(fs, path) \cup {[path |-> path, by |-> writer]}

\* one file name for every call
SharedPath(id) == 100

\* os.path.join(root, "resources", "audios", f"{uuid.uuid4()}.wav"), with id
\* the value uuid4 gave
TempPath(id) == id

\* a written temporary file that os.remove(temp_wav_path) took away again
WrittenAndRemoved(fs, path, writer) == Remove(Created(fs, path, writer), path)

\* an except clause that catches every exception
CaughtAnything(e) == e = e

\* the except clause of the wrapper catches the error class e
Caught(e) == e \in RetryableErrors

\* a loop that gives up one attempt early
LoopStopsEarly(r) == r < max_retry - 1

\* a loop that goes round once more
LoopGoesOnceMore(r) == r <= max_retry

\* while retry < max_retry
LoopContinues(r) == r < max_retry

\* raise Exception(f"Reached maximum number of retries ({max_retry})")
MaxRetryException == [type |-> "Exception", n |-> max_retry]

OSError == [type |-> "OSError", n |-> 0]

\* a pass of the loop whose exception the wrapper's except clause caught:
\* err is an error of RetryableErrors from the remote call; io and other are
\* exceptions of class t raised by the wrapped function itself
Retried(outcome, t) == outcome = "err" \/ (outcome \in {"io", "other"} /\ Caught(t))

\* a pass whose exception is not caught: it leaves the wrapper at once
Escapes(outcome, t) == outcome \in {"io", "other"} /\ ~Caught(t)

\* the io failure comes before the remote call of the pass
AfterRequest(c, outcome) == IF outcome = "io" THEN c ELSE Bump(c, "remote")

\* the file of a failed pass of transcribe: none if SoundFile itself raised
FailedPassFiles(fs, path, outcome) ==
    IF outcome = "io" THEN fs ELSE Created(fs, path, "transcribe")

\* the finally block of transcribe_chunked
Finally(fs, twp) ==
    IF twp # 0 /\ Exists(fs, twp) THEN Remove(fs, twp) ELSE fs

\* a fallback that transcribes the normalized file when there is one
NormalizedInput(filepath, twp) == IF twp # 0 THEN twp ELSE filepath

\* the argument of transcribe_raw in the except block and in the
\* no-segments branch: filepath, never temp_wav_path
WholeFileInput(filepath, twp) == filepath

\* the request ends with an HTTPException
Raise(status, detail) ==
    /\ response' = [status |-> status, detail |-> detail,
                    transcript |-> <<>>, dialogue |-> <<>>]
    /\ pc' = "done"

\* a retry wrapper is entered (retry = 0), or its frame is gone
EnterWrapper ==
    /\ retry' = 0
    /\ requests' = 0
    /\ failures' = 0

\* the retry loop goes round after a retryable error: retry += 1
Retry ==
    /\ retry' = retry + 1
    /\ requests' = requests + 1
    /\ failures' = failures + 1

\* a wrapper call that returned text, as its caller saw it
Returned(fn, text) ==
    [fn |-> fn, requests |-> requests + 1, failures |-> failures,
     outcome |-> "returned", value |-> text, exc |-> NoException]

\* a wrapper call that raised e after reqs requests, failed of them failed
Propagated(fn, reqs, failed, e) ==
    [fn |-> fn, requests |-> reqs, failures |-> failed, outcome |-> "raised",
     value |-> <<>>, exc |-> e]

\* the frame of transcribe_chunked is gone
LeaveChunked ==
    /\ temp_wav_path' = 0
    /\ wav_segments' = 0
    /\ transcript_chunks' = <<>>

\* except Exception as e: ... full_transcript = self.transcribe_raw(filepath)
EnterExcept(e, fs, c) ==
    /\ exc' = e
    /\ pc' = "fallback"
    /\ EnterWrapper
    /\ files' = fs
    /\ calls' = Bump(c, "transcribe_raw")
    /\ raw_paths' = raw_paths \cup {WholeFileInput(audio_output_path, temp_wav_path)}

\* transcribe_chunked returns text: the finally block runs, then
\* process_audio / process_youtube_video call extract_dialogue
ReturnTranscript(text, fs, c) ==
    /\ full_transcript' = text
    /\ files' = Finally(fs, temp_wav_path)
    /\ LeaveChunked
    /\ pc' = "extract_dialogue"
    /\ EnterWrapper
    /\ calls' = Bump(c, "extract_dialogue")

\* the exception e leaves transcribe_chunked: the finally block runs, and
\* the handler's except Exception turns it into the 500
PropagateOut(e, fs, c) ==
    /\ exc' = e
    /\ files' = Finally(fs, temp_wav_path)
    /\ LeaveChunked
    /\ EnterWrapper
    /\ calls' = c
    /\ Raise(500, InternalDetail)

RequestVars == <<audio_file, youtube_video_id, chunk_seconds, default_chunk_seconds>>

VadVars == <<vad_max_dur, vad_result>>

ChunkedLocals == <<temp_wav_path, wav_segments, transcript_chunks>>

WrapperLocals == <<retry, requests, failures>>

DialogueVars == <<history, sent, popped>>

OtherVars == <<other_pc, other_temp, other_uuid>>

---------------------------------------------------------------------------
(* speaker_diarization: parse_chunk_seconds, then the dispatch *)

\* a test that only None fails
IsNotNone(v) == v.tag = "str"

\* if youtube_video_id:
Truthy(v) == v.tag = "str" /\ v.s # <<>>

\* a dispatch that looks at the video id first
VideoFirst(af, yt) == Truthy(yt)

\* the video branch is reached only when the audio branch did not return
TakesVideoPath(af, yt) == ~af /\ Truthy(yt)

\* neither branch is taken: the handler raises the 400 itself
TakesNoPath(af, yt) == ~af /\ ~Truthy(yt)

Arrive(af, yt, cs) ==
    /\ pc = "idle"
    /\ audio_file' = af
    /\ youtube_video_id' = yt
    /\ chunk_seconds' = cs
    /\ UNCHANGED default_chunk_seconds

\* parse_chunk_seconds raises the 400, which except HTTPException re-raises
RejectChunkSeconds ==
    \E af \in BOOLEAN, yt \in VideoIdInputs, cs \in ChunkSecondsInputs :
        /\ Arrive(af, yt, cs)
        /\ ~parse_chunk_seconds(cs, default_chunk_seconds).ok
        /\ Raise(400, InvalidChunkDetail)
        /\ UNCHANGED <<chosen_chunk_seconds, files, uuid, audio_output_path,
                       ChunkedLocals, WrapperLocals, wrapped, exc, VadVars,
                       full_transcript, rate_limits, DialogueVars, OtherVars, calls, raw_paths>>

\* neither audio_file nor a non-empty youtube_video_id
RejectNoInput ==
    \E af \in BOOLEAN, yt \in VideoIdInputs, cs \in ChunkSecondsInputs :
        /\ Arrive(af, yt, cs)
        /\ parse_chunk_seconds(cs, default_chunk_seconds).ok
        /\ TakesNoPath(af, yt)
        /\ chosen_chunk_seconds' = parse_chunk_seconds(cs, default_chunk_seconds).val
        /\ Raise(400, NoInputDetail)
        /\ UNCHANGED <<files, uuid, audio_output_path,
                       ChunkedLocals, WrapperLocals, wrapped, exc, VadVars,
                       full_transcript, rate_limits, DialogueVars, OtherVars, calls, raw_paths>>

\* utils.write_audio(audio_data, filename): a file at the returned path
write_audio(fs, path) == Created(fs, path, "write_audio")

\* VideoDownloader.download_video(video_id): a file at the returned path
download_video(fs, path) == Created(fs, path, "download_video")

\* process_audio up to the path write_audio returns
AcquireAudio ==
    \E yt \in VideoIdInputs, cs \in ChunkSecondsInputs, ok \in BOOLEAN :
        /\ <<TRUE, yt, cs>> \in AcquiredRequests
        /\ Arrive(TRUE, yt, cs)
        /\ parse_chunk_seconds(cs, default_chunk_seconds).ok
        /\ chosen_chunk_seconds' = parse_chunk_seconds(cs, default_chunk_seconds).val
        /\ calls' = Bump(calls, "write_audio")
        /\ IF ok
           THEN /\ uuid' = uuid + 1
                /\ audio_output_path' = uuid + 1
                /\ files' = write_audio(files, uuid + 1)
                /\ pc' = "acquired"
                /\ UNCHANGED <<response, exc>>
           ELSE /\ exc' = OSError
                /\ Raise(500, InternalDetail)
                /\ UNCHANGED <<uuid, audio_output_path, files>>
        /\ UNCHANGED <<ChunkedLocals, WrapperLocals, wrapped, VadVars,
                       full_transcript, rate_limits, DialogueVars, OtherVars, raw_paths>>

\* process_youtube_video up to the path download_video returns
AcquireVideo ==
    \E af \in BOOLEAN, yt \in VideoIdInputs, cs \in ChunkSecondsInputs,
       ok \in BOOLEAN :
        /\ <<af, yt, cs>> \in AcquiredRequests
        /\ Arrive(af, yt, cs)
        /\ parse_chunk_seconds(cs, default_chunk_seconds).ok
        /\ TakesVideoPath(af, yt)
        /\ chosen_chunk_seconds' = parse_chunk_seconds(cs, default_chunk_seconds).val
        /\ calls' = Bump(calls, "download_video")
        /\ IF ok
           THEN /\ uuid' = uuid + 1
                /\ audio_output_path' = uuid + 1
                /\ files' = download_video(files, uuid + 1)
                /\ pc' = "acquired"
                /\ UNCHANGED <<response, exc>>
           ELSE /\ exc' = OSError
                /\ Raise(500, InternalDetail)
                /\ UNCHANGED <<uuid, audio_output_path, files>>
        /\ UNCHANGED <<ChunkedLocals, WrapperLocals, wrapped, VadVars,
                       full_transcript, rate_limits, DialogueVars, OtherVars, raw_paths>>

\* if chunk_seconds is not None and chunk_seconds <= 0
ChunkingDisabled(cs) == cs <= 0

\* whisper_api.transcribe_single_pass(audio_output_path): attribute lookup
\* on the Whisper instance; a name the class does not define raises
\* AttributeError, which the handler's except Exception turns into the 500
TranscribeSinglePass ==
    /\ pc = "acquired"
    /\ ChunkingDisabled(chosen_chunk_seconds)
    /\ "transcribe_single_pass" \notin WhisperMethods
    /\ exc' = [type |-> "AttributeError", n |-> 0]
    /\ Raise(500, InternalDetail)
    /\ UNCHANGED <<RequestVars, chosen_chunk_seconds, files, uuid,
                   audio_output_path, ChunkedLocals, WrapperLocals, wrapped,
                   VadVars, full_transcript, rate_limits, DialogueVars, OtherVars, calls, raw_paths>>

---------------------------------------------------------------------------
(* Whisper.transcribe_chunked *)

\* transcribe_chunked is entered and _convert_to_wav_mono_16k runs ffmpeg.
\* ffmpeg -y opens its output before it decodes, so a run that exits
\* non-zero (check=True raises CalledProcessError) may or may not leave the
\* output file behind; temp_wav_path is assigned only when the call returns.
ConvertToWav ==
    \E ok \in BOOLEAN, partial \in BOOLEAN :
        /\ pc = "acquired"
        /\ ~ChunkingDisabled(chosen_chunk_seconds)
        /\ uuid' = uuid + 1
        /\ IF ok
           THEN /\ partial
                /\ temp_wav_path' = TempPath(uuid + 1)
                /\ files' = Created(files, TempPath(uuid + 1), "ffmpeg")
                /\ pc' = "audio_process"
                /\ calls' = Bump(Bump(calls, "transcribe_chunked"), "convert")
                /\ UNCHANGED <<WrapperLocals, exc, raw_paths>>
           ELSE /\ temp_wav_path' = 0
                /\ EnterExcept([type |-> "CalledProcessError", n |-> 0],
                               IF partial
                               THEN Created(files, TempPath(uuid + 1), "ffmpeg")
                               ELSE files,
                               Bump(Bump(calls, "transcribe_chunked"), "convert"))
        /\ UNCHANGED <<RequestVars, chosen_chunk_seconds, audio_output_path,
                       wav_segments, transcript_chunks, wrapped, VadVars,
                       full_transcript, rate_limits, DialogueVars, OtherVars, response>>

\* chosen_chunk_seconds of transcribe_chunked: the request always passes an
\* integer, so the default of the instance is not used
ChosenChunkSeconds(cs) == _clamp_chunk_seconds(IntVal(cs))

\* a test that an empty list does not pass
NoSegmentsIsNone(n) == n < 0

\* if not wav_segments:
NoSegments(n) == n = 0

\* audio_process: read and decode the normalized file, vad_audiotok, slice.
\* decode: open / sf.read raised; vad: auditok.split raised; else n segments
AudioProcess ==
    \E outcome \in {"decode", "vad", "segments"}, n \in 0..MaxSegments :
        /\ pc = "audio_process"
        /\ outcome # "segments" => n = 0
        /\ vad_max_dur' = IF outcome = "decode" THEN vad_max_dur
                          ELSE ChosenChunkSeconds(chosen_chunk_seconds)
        /\ vad_result' = IF outcome # "segments" THEN "raised"
                         ELSE IF n = 0 THEN "empty" ELSE "speech"
        /\ LET c == IF outcome = "decode" THEN Bump(calls, "audio_process")
                    ELSE Bump(Bump(calls, "audio_process"), "vad")
           IN  IF outcome # "segments"
               THEN /\ EnterExcept([type |-> "AudioError", n |-> 0], files, c)
                    /\ UNCHANGED <<ChunkedLocals, full_transcript>>
               ELSE IF NoSegments(n)
               THEN \* transcribe_raw(filepath), inside the try block
                    /\ wav_segments' = n
                    /\ pc' = "no_segments"
                    /\ EnterWrapper
                    /\ calls' = Bump(c, "transcribe_raw")
                    /\ raw_paths' = raw_paths \cup
                           {WholeFileInput(audio_output_path, temp_wav_path)}
                    /\ UNCHANGED <<exc, files, temp_wav_path, transcript_chunks,
                                   full_transcript>>
               ELSE IF n > 0
               THEN \* the loop starts: self.transcribe(segment) for segment 1
                    /\ wav_segments' = n
                    /\ pc' = "transcribe"
                    /\ EnterWrapper
                    /\ calls' = Bump(c, "transcribe")
                    /\ UNCHANGED <<exc, files, raw_paths, temp_wav_path,
                                   transcript_chunks, full_transcript>>
               ELSE \* a loop over no segments: the join of nothing
                    /\ ReturnTranscript(MergeChunks(<<>>), files, c)
                    /\ UNCHANGED <<exc, raw_paths>>
        /\ UNCHANGED <<RequestVars, chosen_chunk_seconds, uuid,
                       audio_output_path, wrapped, rate_limits, DialogueVars, OtherVars, response>>

\* a loop that goes one segment past the end
OneSegmentMore(collected, n) == collected <= n

\* for idx, segment in enumerate(wav_segments, start=1): after collected
\* texts the loop goes on while a segment is left
MoreSegments(collected, n) == collected < n

\* one pass of the retry loop around Whisper.transcribe(segment):
\*   io    sf.SoundFile(temp_wav_path, 'wb') raised, not an OpenAI error:
\*         it propagates out of the wrapper
\*   ok    the remote call returned text; os.remove, return response.text
\*   err   the remote call raised an error of RetryableErrors: os.remove is
\*         not reached, the file of this pass stays, retry += 1
TranscribeAttempt ==
    \E outcome \in {"io", "ok", "err"}, text \in Texts :
        /\ pc = "transcribe"
        /\ LoopContinues(retry)
        /\ outcome # "ok" => text = <<>>
        /\ outcome = "err" => \E e \in RetryableErrors : Caught(e)
        /\ uuid' = uuid + 1
        /\ CASE Escapes(outcome, OSError.type) ->
                  /\ wrapped' = Propagated("transcribe", requests, failures, OSError)
                  /\ EnterExcept(OSError, files, calls)
                  /\ UNCHANGED <<ChunkedLocals, full_transcript>>
             [] outcome = "ok" ->
                  /\ wrapped' = Returned("transcribe", text)
                  /\ IF MoreSegments(Len(transcript_chunks) + 1, wav_segments)
                     THEN /\ transcript_chunks' = Append(transcript_chunks, text)
                          /\ pc' = "transcribe"
                          /\ EnterWrapper
                          /\ calls' = Bump(Bump(calls, "remote"), "transcribe")
                          /\ files' = WrittenAndRemoved(files, TempPath(uuid + 1),
                                                        "transcribe")
                          /\ UNCHANGED <<full_transcript, temp_wav_path,
                                         wav_segments, exc>>
                     ELSE /\ ReturnTranscript(
                                 MergeChunks(Append(transcript_chunks, text)),
                                 WrittenAndRemoved(files, TempPath(uuid + 1),
                                                   "transcribe"),
                                 Bump(calls, "remote"))
                          /\ UNCHANGED exc
                  /\ UNCHANGED raw_paths
             [] Retried(outcome, OSError.type) ->
                  /\ IF LoopContinues(retry + 1)
                     THEN /\ Retry
                          /\ files' = FailedPassFiles(files, TempPath(uuid + 1),
                                                      outcome)
                          /\ calls' = AfterRequest(calls, outcome)
                          /\ UNCHANGED <<pc, wrapped, exc, raw_paths>>
                     ELSE /\ wrapped' = Propagated("transcribe", requests + 1,
                                                   failures + 1, MaxRetryException)
                          /\ EnterExcept(MaxRetryException,
                                         FailedPassFiles(files, TempPath(uuid + 1),
                                                         outcome),
                                         AfterRequest(calls, outcome))
                  /\ UNCHANGED <<ChunkedLocals, full_transcript>>
        /\ UNCHANGED <<RequestVars, chosen_chunk_seconds, audio_output_path,
                       VadVars, rate_limits, DialogueVars, OtherVars, response>>

\* one pass of the retry loop around Whisper.transcribe_raw(filepath):
\*   io    open(audio_file) raised, not an OpenAI error: propagates
\*   ok    the remote call returned text
\*   err   the remote call raised an error of RetryableErrors: retry += 1
\* Called from the no-segments branch, inside the try block: whatever it
\* raises is caught by except Exception.
NoSegmentsAttempt ==
    \E outcome \in {"io", "ok", "err"}, text \in Texts :
        /\ pc = "no_segments"
        /\ LoopContinues(retry)
        /\ outcome # "ok" => text = <<>>
        /\ outcome = "err" => \E e \in RetryableErrors : Caught(e)
        /\ CASE Escapes(outcome, OSError.type) ->
                  /\ wrapped' = Propagated("transcribe_raw", requests, failures, OSError)
                  /\ EnterExcept(OSError, files, calls)
                  /\ UNCHANGED <<ChunkedLocals, full_transcript>>
             [] outcome = "ok" ->
                  /\ wrapped' = Returned("transcribe_raw", text)
                  /\ ReturnTranscript(text, files, Bump(calls, "remote"))
                  /\ UNCHANGED <<exc, raw_paths>>
             [] Retried(outcome, OSError.type) ->
                  /\ IF LoopContinues(retry + 1)
                     THEN /\ Retry
                          /\ calls' = AfterRequest(calls, outcome)
                          /\ UNCHANGED <<pc, wrapped, exc, raw_paths, files>>
                     ELSE /\ wrapped' = Propagated("transcribe_raw", requests + 1,
                                                   failures + 1, MaxRetryException)
                          /\ EnterExcept(MaxRetryException, files,
                                         AfterRequest(calls, outcome))
                  /\ UNCHANGED <<ChunkedLocals, full_transcript>>
        /\ UNCHANGED <<RequestVars, chosen_chunk_seconds, uuid,
                       audio_output_path, VadVars, rate_limits, DialogueVars, OtherVars, response>>

\* the same loop, called from the except block: what it raises leaves
\* transcribe_chunked through the finally block
FallbackAttempt ==
    \E outcome \in {"io", "ok", "err"}, text \in Texts :
        /\ pc = "fallback"
        /\ LoopContinues(retry)
        /\ outcome # "ok" => text = <<>>
        /\ outcome = "err" => \E e \in RetryableErrors : Caught(e)
        /\ CASE Escapes(outcome, OSError.type) ->
                  /\ wrapped' = Propagated("transcribe_raw", requests, failures, OSError)
                  /\ PropagateOut(OSError, files, calls)
                  /\ UNCHANGED full_transcript
             [] outcome = "ok" ->
                  /\ wrapped' = Returned("transcribe_raw", text)
                  /\ ReturnTranscript(text, files, Bump(calls, "remote"))
                  /\ UNCHANGED <<response, exc>>
             [] Retried(outcome, OSError.type) ->
                  /\ IF LoopContinues(retry + 1)
                     THEN /\ Retry
                          /\ calls' = AfterRequest(calls, outcome)
                          /\ UNCHANGED <<pc, wrapped, files, response, exc,
                                         ChunkedLocals>>
                     ELSE /\ wrapped' = Propagated("transcribe_raw", requests + 1,
                                                   failures + 1, MaxRetryException)
                          /\ PropagateOut(MaxRetryException, files,
                                          AfterRequest(calls, outcome))
                  /\ UNCHANGED full_transcript
        /\ UNCHANGED <<RequestVars, chosen_chunk_seconds, uuid,
                       audio_output_path, VadVars, rate_limits, DialogueVars, OtherVars, raw_paths>>

---------------------------------------------------------------------------
(* AI.extract_dialogue and the response *)

\* one chat-completion call of extract_dialogue, under its retry wrapper:
\*   ok          return the stripped content; the handler answers 200
\*   rate_limit  except RateLimitError: messages.pop(1); continue
\*   err         another error of RetryableErrors reaches the wrapper
\*   other       any other exception propagates
Prompt == <<"p">>

SystemMessage == [role |-> "system", content |-> Prompt]

\* transcript.replace('\n', '')
RemoveNewlines(t) == SelectSeq(t, LAMBDA ch : ch # "\n")

UserMessage(transcript) == [role |-> "user", content |-> RemoveNewlines(transcript)]

\* messages = list(history) if history else [system]; messages.append(user)
BuildMessages(h, transcript) ==
    (IF h.tag = "list" /\ h.l # <<>> THEN h.l ELSE <<SystemMessage>>)
        \o <<UserMessage(transcript)>>

\* messages.pop(1), defined on two messages or more
PopSecond(m) == [i \in 1..(Len(m) - 1) |-> IF i < 2 THEN m[i] ELSE m[i + 1]]

\* a loop that builds the messages once and goes on with what pop left
MessagesKept(h, transcript, left) ==
    IF left # <<>> THEN left ELSE BuildMessages(h, transcript)

\* every pass of while True builds the messages again
MessagesToSend(h, transcript, left) == BuildMessages(h, transcript)

\* a rate-limit signal that counts as a failed attempt of the wrapper
CountedAsRetry(r) == r + 1

\* except RateLimitError: ... continue, inside the wrapped function: the
\* wrapper's retry is untouched
AfterRateLimit(r) == r

ChatAttempt ==
    \E outcome \in {"ok", "rate_limit", "err", "other"} :
        LET messages == MessagesToSend(history, full_transcript, popped) IN
        /\ pc = "extract_dialogue"
        /\ LoopContinues(retry)
        /\ outcome = "err" => \E e \in RetryableErrors : (Caught(e) /\ e # "RateLimitError")
        /\ sent' = messages
        /\ CASE outcome = "ok" ->
                  /\ response' = [status |-> 200, detail |-> "",
                                  transcript |-> full_transcript,
                                  dialogue |-> DialogueText]
                  /\ pc' = "done"
                  /\ EnterWrapper
                  /\ UNCHANGED <<rate_limits, exc, popped>>
             [] outcome = "rate_limit" ->
                  /\ rate_limits < MaxRateLimits
                  /\ rate_limits' = rate_limits + 1
                  /\ IF Len(messages) >= 2
                     THEN /\ popped' = PopSecond(messages)
                          /\ requests' = requests + 1
                          /\ retry' = AfterRateLimit(retry)
                          /\ UNCHANGED <<pc, response, failures, exc>>
                     ELSE /\ exc' = [type |-> "IndexError", n |-> 0]
                          /\ EnterWrapper
                          /\ Raise(500, InternalDetail)
                          /\ UNCHANGED popped
             [] Retried(outcome, "Error") ->
                  /\ IF LoopContinues(retry + 1)
                     THEN /\ Retry
                          /\ UNCHANGED <<pc, response, exc>>
                     ELSE /\ exc' = MaxRetryException
                          /\ EnterWrapper
                          /\ Raise(500, InternalDetail)
                  /\ UNCHANGED <<rate_limits, popped>>
             [] Escapes(outcome, "Error") ->
                  /\ exc' = [type |-> "Error", n |-> 0]
                  /\ EnterWrapper
                  /\ Raise(500, InternalDetail)
                  /\ UNCHANGED <<rate_limits, popped>>
        /\ UNCHANGED <<RequestVars, chosen_chunk_seconds, files, uuid,
                       audio_output_path, ChunkedLocals, VadVars,
                       full_transcript, calls, raw_paths, wrapped, history,
                       OtherVars>>

---------------------------------------------------------------------------

Next ==
    \/ RejectChunkSeconds
    \/ RejectNoInput
    \/ AcquireAudio
    \/ AcquireVideo
    \/ TranscribeSinglePass
    \/ ConvertToWav
    \/ AudioProcess
    \/ TranscribeAttempt
    \/ NoSegmentsAttempt
    \/ FallbackAttempt
    \/ ChatAttempt

Spec == Init /\ [][Next]_vars

TypeOK ==
    /\ pc \in {"idle", "acquired", "audio_process", "transcribe", "no_segments",
               "fallback", "extract_dialogue", "done"}
    /\ retry \in 0..(max_retry - 1)
    /\ response.status \in {0, 200, 400, 500}


---------------------------------------------------------------------------
(* The merge of per-segment texts on its own: transcribe_chunked after a   *)
(* loop in which every segment was transcribed                             *)

JoinAlphabet == {"a", " "}

JoinTexts == SeqsUpTo(JoinAlphabet, MaxLen)

PieceLists == SeqsUpTo(JoinTexts, MaxPieces) \ {<<>>}

JoinInit ==
    /\ pc = "join"
    /\ audio_file = TRUE
    /\ youtube_video_id = NoneVal
    /\ chunk_seconds = NoneVal
    /\ default_chunk_seconds = InitDefaultChunkSeconds(NoneVal)
    /\ chosen_chunk_seconds = default_chunk_seconds
    /\ files = {}
    /\ uuid = 0
    /\ audio_output_path = 0
    /\ temp_wav_path = 0
    /\ transcript_chunks \in PieceLists
    /\ wav_segments = Len(transcript_chunks)
    /\ retry = 0
    /\ requests = 0
    /\ failures = 0
    /\ wrapped = NoWrapped
    /\ exc = NoException
    /\ vad_max_dur = ChosenChunkSeconds(chosen_chunk_seconds)
    /\ vad_result = "speech"
    /\ full_transcript = <<>>
    /\ rate_limits = 0
    /\ calls = NoCalls
    /\ raw_paths = {}
    /\ response = NoResponse
    /\ history = NoHistory
    /\ sent = <<>>
    /\ popped = <<>>
    /\ other_pc = "absent"
    /\ other_temp = 0
    /\ other_uuid = OtherFirstId

\* full_transcript = " ".join(...).strip() after the loop
JoinChunks ==
    /\ pc = "join"
    /\ full_transcript' = MergeChunks(transcript_chunks)
    /\ pc' = "joined"
    /\ UNCHANGED <<RequestVars, chosen_chunk_seconds, files, uuid,
                   audio_output_path, ChunkedLocals, WrapperLocals, wrapped,
                   exc, VadVars, rate_limits, DialogueVars, OtherVars, calls, raw_paths, response>>

SpecJoin == JoinInit /\ [][JoinChunks]_vars


---------------------------------------------------------------------------
(* extract_dialogue on its own, called with a transcript and a history     *)

AssistantMessage == [role |-> "assistant", content |-> DialogueText]

OtherSystemMessage == [role |-> "system", content |-> <<"q">>]

HistoryInputs ==
    {NoHistory, ListVal(<<>>), ListVal(<<OtherSystemMessage>>),
     ListVal(<<OtherSystemMessage, UserMessage(<<"b">>), AssistantMessage>>)}

DialogueTranscripts == {<<>>, <<"a">>, <<"\n">>, <<"a", "\n", "b">>}

DialogueInit ==
    /\ pc = "extract_dialogue"
    /\ audio_file = TRUE
    /\ youtube_video_id = NoneVal
    /\ chunk_seconds = NoneVal
    /\ default_chunk_seconds = InitDefaultChunkSeconds(NoneVal)
    /\ chosen_chunk_seconds = default_chunk_seconds
    /\ files = {}
    /\ uuid = 0
    /\ audio_output_path = 0
    /\ temp_wav_path = 0
    /\ transcript_chunks = <<>>
    /\ wav_segments = 0
    /\ retry = 0
    /\ requests = 0
    /\ failures = 0
    /\ wrapped = NoWrapped
    /\ exc = NoException
    /\ vad_max_dur = 0
    /\ vad_result = "none"
    /\ full_transcript \in DialogueTranscripts
    /\ rate_limits = 0
    /\ calls = Bump(NoCalls, "extract_dialogue")
    /\ raw_paths = {}
    /\ response = NoResponse
    /\ history \in HistoryInputs
    /\ sent = <<>>
    /\ popped = <<>>
    /\ other_pc = "absent"
    /\ other_temp = 0
    /\ other_uuid = OtherFirstId

SpecDialogue == DialogueInit /\ [][ChatAttempt]_vars


---------------------------------------------------------------------------
(* Two runs of transcribe_chunked over the same resources/audios folder:  *)
(* the run of the request, and a second run on another upload with one    *)
(* speech segment, whose steps interleave with the first                  *)

OtherUnchanged ==
    UNCHANGED <<pc, RequestVars, chosen_chunk_seconds, audio_output_path,
                ChunkedLocals, WrapperLocals, wrapped, exc, VadVars,
                full_transcript, rate_limits, calls, raw_paths, response,
                DialogueVars>>

\* _convert_to_wav_mono_16k of the second run
OtherConvert ==
    /\ other_pc = "start"
    /\ other_uuid' = other_uuid + 1
    /\ other_temp' = TempPath(other_uuid + 1)
    /\ files' = Created(files, TempPath(other_uuid + 1), "other_ffmpeg")
    /\ other_pc' = "transcribe"
    /\ UNCHANGED uuid
    /\ OtherUnchanged

\* one pass of the retry loop around transcribe(segment) of the second run;
\* after a second failure the run is left through its finally block
OtherAttempt ==
    \E ok \in BOOLEAN :
        /\ other_pc \in {"transcribe", "transcribe_again"}
        /\ other_uuid' = other_uuid + 1
        /\ IF ok
           THEN /\ files' = WrittenAndRemoved(files, TempPath(other_uuid + 1),
                                              "other_transcribe")
                /\ other_pc' = "finally"
           ELSE /\ files' = Created(files, TempPath(other_uuid + 1),
                                    "other_transcribe")
                /\ other_pc' = IF other_pc = "transcribe"
                               THEN "transcribe_again" ELSE "finally"
        /\ UNCHANGED <<other_temp, uuid>>
        /\ OtherUnchanged

\* the finally block of the second run
OtherFinally ==
    /\ other_pc = "finally"
    /\ files' = Finally(files, other_temp)
    /\ other_temp' = 0
    /\ other_pc' = "returned"
    /\ UNCHANGED <<uuid, other_uuid>>
    /\ OtherUnchanged

TwoInit ==
    /\ pc = "acquired"
    /\ audio_file = TRUE
    /\ youtube_video_id = NoneVal
    /\ chunk_seconds = NoneVal
    /\ default_chunk_seconds = InitDefaultChunkSeconds(NoneVal)
    /\ chosen_chunk_seconds = default_chunk_seconds
    /\ files = write_audio(write_audio({}, 1), 2)
    /\ uuid = 2
    /\ audio_output_path = 1
    /\ temp_wav_path = 0
    /\ transcript_chunks = <<>>
    /\ wav_segments = 0
    /\ retry = 0
    /\ requests = 0
    /\ failures = 0
    /\ wrapped = NoWrapped
    /\ exc = NoException
    /\ vad_max_dur = 0
    /\ vad_result = "none"
    /\ full_transcript = <<>>
    /\ rate_limits = 0
    /\ calls = Bump(NoCalls, "write_audio")
    /\ raw_paths = {}
    /\ response = NoResponse
    /\ history = NoHistory
    /\ sent = <<>>
    /\ popped = <<>>
    /\ other_pc = "start"
    /\ other_temp = 0
    /\ other_uuid = OtherFirstId

TwoNext ==
    \/ ConvertToWav
    \/ AudioProcess
    \/ TranscribeAttempt
    \/ NoSegmentsAttempt
    \/ FallbackAttempt
    \/ OtherConvert
    \/ OtherAttempt
    \/ OtherFinally

SpecTwo == TwoInit /\ [][TwoNext]_vars

---------------------------------------------------------------------------
(* Properties *)

Finished == pc = "done"

\* a transcription retry wrapper is running
InTranscriptionWrapper == pc \in {"transcribe", "no_segments", "fallback"}

\* C1: a request whose resolved chunk duration is <= 0 and whose audio was
\* acquired invokes whole-file transcription on the acquired path exactly
\* once, never enters the segmenting path, and is not refused with an
\* error before any transcription was tried.
C1_SinglePassWholeFile ==
    (Finished /\ audio_output_path # 0 /\ chosen_chunk_seconds <= 0) =>
        /\ calls.transcribe_single_pass = 1
        /\ calls.transcribe_chunked = 0
        /\ calls.convert = 0
        /\ calls.vad = 0

\* C2: whenever a step of the chunked path raised, transcribe_raw is called
\* on the original input path and never on the normalized one, and what
\* transcribe_chunked returns is exactly the text that call returned.
C2_FallbackOnOriginal ==
    /\ pc = "fallback" => calls.transcribe_raw >= 1 /\ audio_output_path \in raw_paths
    /\ \A path \in raw_paths :
           path = audio_output_path /\ ~(temp_wav_path # 0 /\ path = temp_wav_path)
    /\ (pc = "extract_dialogue" /\ exc # NoException) =>
           /\ wrapped.fn = "transcribe_raw"
           /\ wrapped.outcome = "returned"
           /\ full_transcript = wrapped.value

\* C2 witness: segment 1 was transcribed, segment 2 used up its retries,
\* and the fallback returned a text no merge of segment texts can give
C2_Witness ==
    /\ pc = "extract_dialogue"
    /\ exc = MaxRetryException
    /\ calls.transcribe = 2
    /\ raw_paths = {audio_output_path}
    /\ full_transcript = <<"a", " ">>

\* C3: when segmentation yields zero segments no per-segment transcription
\* is called, and the transcript returned is the result of whole-file
\* transcription of the original input file.
C3_NoSegmentsWholeFile ==
    vad_result = "empty" =>
        /\ calls.transcribe = 0
        /\ calls.transcribe_raw >= 1
        /\ raw_paths = {audio_output_path}
        /\ pc = "extract_dialogue" =>
               /\ wrapped.fn = "transcribe_raw"
               /\ wrapped.outcome = "returned"
               /\ full_transcript = wrapped.value
        /\ response.status = 200 => response.transcript = wrapped.value

\* C3 witness: no segments, the whole-file call answered at once
C3_Witness ==
    /\ vad_result = "empty"
    /\ pc = "extract_dialogue"
    /\ exc = NoException
    /\ calls.transcribe_raw = 1
    /\ calls.remote = 1
    /\ full_transcript = <<"a", " ">>

\* C4: with N >= 1 segments, all transcribed, the transcript equals the
\* reference: trim each piece, drop the empty ones, join with one space.
C4_JoinIsReference ==
    pc = "joined" => full_transcript = ReferenceTranscript(transcript_chunks)

\* C5: a retry-wrapped transcription call whose remote fails k <= 6 times
\* and then succeeds returns, having made exactly k + 1 remote requests;
\* it is never given up before the 7th failure.
C5_ReturnsAfterKFailures ==
    /\ wrapped.outcome = "returned" =>
           /\ wrapped.failures \in 0..6
           /\ wrapped.requests = wrapped.failures + 1
    /\ wrapped.exc = MaxRetryException => wrapped.failures > 6
    /\ InTranscriptionWrapper => (failures <= 6 /\ requests = failures)

\* C5 witness: three failures, then the text, in four requests
C5_Witness ==
    /\ wrapped.outcome = "returned"
    /\ wrapped.failures = 3
    /\ wrapped.requests = 4
    /\ wrapped.value = <<"a", " ">>

\* C6: a retry-wrapped transcription call whose remote fails every time is
\* attempted exactly 7 times, never an 8th, and then raises an exception
\* that carries the bound 7; it returns no value.
C6_RaisesAfterSevenFailures ==
    /\ InTranscriptionWrapper => requests < 7
    /\ wrapped.requests <= 7
    /\ wrapped.failures >= 7 =>
           /\ wrapped.outcome = "raised"
           /\ wrapped.exc.type = "Exception"
           /\ wrapped.exc.n = 7
           /\ wrapped.requests = 7
           /\ wrapped.failures = 7
           /\ wrapped.value = <<>>

\* C6 witness: a call that raised after 7 failed requests
C6_Witness ==
    /\ wrapped.outcome = "raised"
    /\ wrapped.failures = 7
    /\ wrapped.requests = 7
    /\ wrapped.exc.n = 7

\* C7: when transcribe_chunked has exited, by return or by exception, no
\* normalized temporary file written by the conversion exists.
C7_NormalizedFileRemoved ==
    pc \in {"extract_dialogue", "done"} => ~\E f \in files : f.by = "ffmpeg"

\* C8: when a request has finished, no temporary audio file created during
\* the request exists: acquired input, normalized file, segment files.
C8_NoFileLeftAtEnd ==
    Finished => files = {}

\* C9: for an integer chunk_seconds > 0 the maximum duration handed to
\* voice-activity detection is max(10, min(600, requested)); clamping the
\* already clamped value changes nothing, and the value is in [10, 600].
C9_VadGetsClampedValue ==
    LET requested == PyInt(chunk_seconds.s)
    IN  (chunk_seconds.tag = "str" /\ requested.ok /\ requested.val > 0
         /\ vad_max_dur # 0) =>
            /\ vad_max_dur = Max(10, Min(600, requested.val))
            /\ vad_max_dur \in 10..600
            /\ chosen_chunk_seconds = Max(10, Min(600, requested.val))
            /\ Max(10, Min(600, chosen_chunk_seconds)) = chosen_chunk_seconds

\* C9 witness: 601 was requested and detection ran with 600
C9_Witness ==
    /\ chunk_seconds = StrVal(<<"6", "0", "1">>)
    /\ calls.vad = 1
    /\ vad_max_dur = 600

\* the chunk_seconds values of ChunkSecondsInputs that int() rejects
NonIntegerInputs == {StrVal(<<"x">>), StrVal(<<"1", ".", "5">>), StrVal(<<>>)}

\* C10: a request whose chunk_seconds is present and not an integer fails
\* with status 400 and the must-be-an-integer detail, before any audio is
\* acquired and before any transcription or dialogue-extraction call,
\* whatever audio_file and youtube_video_id are.
C10_NonIntegerRejectedFirst ==
    chunk_seconds \in NonIntegerInputs =>
        /\ Finished
        /\ response.status = 400
        /\ response.detail = InvalidChunkDetail
        /\ calls = NoCalls
        /\ files = {}
        /\ audio_output_path = 0
        /\ uuid = 0

\* C10 witness: "1.5" with an uploaded file and a video id
C10_Witness ==
    /\ Finished
    /\ chunk_seconds = StrVal(<<"1", ".", "5">>)
    /\ audio_file
    /\ youtube_video_id = StrVal(<<"v">>)
    /\ response.status = 400


\* C11: a request with no audio_file and no or an empty youtube_video_id,
\* whose chunk_seconds is absent or an integer, fails with status 400 and
\* the detail "Provide either audio_file or youtube_video_id"; nothing is
\* downloaded, transcribed or extracted, and the 400 is not turned into 500.
C11_NoInputRejected ==
    (pc # "idle" /\ ~audio_file
     /\ youtube_video_id \in {NoneVal, StrVal(<<>>)}
     /\ chunk_seconds \notin NonIntegerInputs) =>
        /\ Finished
        /\ response.status = 400
        /\ response.detail = "Provide either audio_file or youtube_video_id"
        /\ calls = NoCalls
        /\ files = {}
        /\ audio_output_path = 0

\* C11 witness: an empty video id with chunk_seconds "30"
C11_Witness ==
    /\ Finished
    /\ ~audio_file
    /\ youtube_video_id = StrVal(<<>>)
    /\ chunk_seconds = StrVal(<<"3", "0">>)
    /\ response.status = 400

\* C12: at most one acquisition path runs in a request: with audio_file set
\* the video downloader is never called, and with only youtube_video_id
\* set the upload is never written.
C12_DispatchExclusive ==
    /\ calls.write_audio + calls.download_video <= 1
    /\ audio_file => calls.download_video = 0
    /\ (pc # "idle" /\ ~audio_file) => calls.write_audio = 0
    /\ calls.write_audio = 1 => audio_file
    /\ calls.download_video = 1 => (~audio_file /\ youtube_video_id = StrVal(<<"v">>))

\* C12 witness: both fields set, the upload path ran
C12_Witness ==
    /\ audio_file
    /\ youtube_video_id = StrVal(<<"v">>)
    /\ calls.write_audio = 1
    /\ calls.download_video = 0
    /\ pc = "acquired"

\* C13: a finished request has exactly one of: 200 with transcript and
\* diarization result, 400, or 500 with the detail "Internal server error";
\* an exception that is not a client error ends in the 500 and its message
\* is not in the response.
C13_ErrorBoundary ==
    /\ Finished <=> response.status # 0
    /\ Finished =>
           /\ response.status \in {200, 400, 500}
           /\ response.status = 200 =>
                  /\ response.transcript = full_transcript
                  /\ response.dialogue = DialogueText
                  /\ response.detail = ""
           /\ response.status = 400 =>
                  /\ response.detail \in
                         {InvalidChunkDetail,
                          "Provide either audio_file or youtube_video_id"}
                  /\ calls = NoCalls
           /\ response.status = 500 =>
                  /\ response.detail = "Internal server error"
                  /\ exc # NoException
                  /\ response.transcript = <<>>
                  /\ response.dialogue = <<>>
    /\ (Finished /\ exc.type \in {"AttributeError", "Error"}) => response.status = 500
    /\ (Finished /\ wrapped.fn = "transcribe_raw" /\ wrapped.outcome = "raised")
           => response.status = 500

\* C13 witness: the whole-file fallback used up its retries
C13_Witness ==
    /\ Finished
    /\ response.status = 500
    /\ exc = MaxRetryException
    /\ wrapped.fn = "transcribe_raw"
    /\ wrapped.failures = 7


SentIsWellFormed ==
    LET n == Len(sent) IN
    /\ n >= 2
    /\ sent[n].role = "user"
    /\ \A k \in 1..Len(sent[n].content) : sent[n].content[k] # "\n"
    /\ sent[n].content = SelectSeq(full_transcript, LAMBDA ch : ch # "\n")
    /\ SubSeq(sent, 1, n - 1) =
           IF history.tag = "list" /\ Len(history.l) > 0
           THEN history.l
           ELSE <<[role |-> "system", content |-> Prompt]>>

\* C18: every chat request of extract_dialogue carries the history (or
\* the system instruction when there is none) followed by one user turn
\* with the transcript without newlines; so there are two messages or more
\* when a rate-limit signal is handled and pop(1) does not fail, and a
\* retry sends the same messages as the attempt before it.
C18_SameMessagesEveryAttempt ==
    /\ [](sent # <<>> => SentIsWellFormed)
    /\ [](exc.type # "IndexError")
    /\ [](popped # <<>> => popped = <<sent[1]>> \o SubSeq(sent, 3, Len(sent)))
    /\ [][sent # <<>> => sent' = sent]_vars

\* C18 witness: a request after a handled rate-limit signal and a failed
\* attempt, with a history of three messages and a newline in the transcript
C18_Witness ==
    /\ pc = "extract_dialogue"
    /\ rate_limits >= 1
    /\ retry >= 1
    /\ Len(history.l) = 3
    /\ full_transcript = <<"a", "\n", "b">>
    /\ Len(sent) = 4
    /\ Len(popped) = 3


\* C15: once a whole-file transcription call inside transcribe_chunked has
\* failed 7 times, transcribe_chunked makes no further transcription
\* attempt and the failure ends the request, on the no-segments route as
\* on the route through the except block.
C15_ExhaustionPropagates ==
    (wrapped.fn = "transcribe_raw" /\ wrapped.outcome = "raised"
     /\ wrapped.exc = MaxRetryException) =>
        /\ Finished
        /\ response.status = 500
        /\ calls.transcribe_raw = 1

\* C16: segments are transcribed one after the other in the order of the
\* spans: the call for the next segment starts in the step in which the one
\* before returned text, no step makes more than one remote request, no
\* more calls are made than there are segments, and after a call raised no
\* further segment is sent.
C16_SegmentsInOrder ==
    /\ [](pc = "transcribe" =>
              /\ calls.transcribe = Len(transcript_chunks) + 1
              /\ calls.transcribe <= wav_segments
              /\ requests = failures
              /\ requests < 7)
    /\ [](calls.transcribe <= MaxSegments + 1)
    /\ [][calls'.remote \in {calls.remote, calls.remote + 1}]_vars
    /\ [][(calls.transcribe >= 1 /\ calls'.transcribe # calls.transcribe) =>
              /\ pc = "transcribe"
              /\ calls'.transcribe = calls.transcribe + 1
              /\ calls'.remote = calls.remote + 1
              /\ wrapped'.fn = "transcribe"
              /\ wrapped'.outcome = "returned"
              /\ transcript_chunks' = Append(transcript_chunks, wrapped'.value)]_vars
    /\ [][(pc \in {"fallback", "extract_dialogue", "done"}) =>
              (calls'.transcribe = calls.transcribe)]_vars

\* C16 witness: the second segment is being retried after the first returned
C16_Witness ==
    /\ pc = "transcribe"
    /\ Len(transcript_chunks) = 1
    /\ calls.transcribe = 2
    /\ wrapped.fn = "transcribe"
    /\ wrapped.outcome = "returned"
    /\ retry >= 1

\* C17: a finished call of Whisper.transcribe, whatever its outcome and
\* however many retries it took, has removed every temporary file it
\* created.
C17_SegmentFileRemoved ==
    (wrapped.fn = "transcribe" /\ wrapped.outcome \in {"returned", "raised"}) =>
        {f \in files : f.by = "transcribe"} = {}

\* C20: the remote transcription requests of one transcribe_chunked run on
\* a recording of N segments are at most 7 * N + 7.
C20_RequestBound ==
    (pc \in {"transcribe", "no_segments", "fallback"}
     /\ vad_result \in {"empty", "speech"}) =>
        calls.remote <= 7 * wav_segments + 7


\* C19: every normalization and every segment attempt writes to a path of
\* its own: a written file never lands on a path in use, the normalized
\* files of two interleaved runs differ and each is there for as long as
\* its run needs it, the uploads stay, and a step removes nothing but the
\* normalized file of the run that takes it.
C19_PathsIndependent ==
    /\ [](\A f, g \in files : f.path = g.path => f = g)
    /\ []((temp_wav_path # 0 /\ other_temp # 0) => temp_wav_path # other_temp)
    /\ []((temp_wav_path # 0
           /\ pc \in {"audio_process", "transcribe", "no_segments", "fallback"})
              => [path |-> temp_wav_path, by |-> "ffmpeg"] \in files)
    /\ [](other_pc \in {"transcribe", "transcribe_again", "finally"}
              => [path |-> other_temp, by |-> "other_ffmpeg"] \in files)
    /\ []({[path |-> 1, by |-> "write_audio"],
           [path |-> 2, by |-> "write_audio"]} \subseteq files)
    /\ [][\A f \in files' \ files : ~(\E g \in files : g.path = f.path)]_vars
    /\ [][\A f \in files \ files' :
              \/ (f.by = "ffmpeg" /\ f.path = temp_wav_path
                  /\ pc' \in {"extract_dialogue", "done"})
              \/ (f.by = "other_ffmpeg" /\ f.path = other_temp
                  /\ other_pc = "finally")]_vars

\* C19 witness: both runs hold a normalized file and each has left the file
\* of a failed segment attempt
C19_Witness ==
    /\ pc = "transcribe"
    /\ other_pc = "transcribe_again"
    /\ temp_wav_path # 0
    /\ other_temp # 0
    /\ \E f \in files : f.by = "transcribe"
    /\ \E f \in files : f.by = "other_transcribe"
    /\ Cardinality(files) = 6


\* C21: the retry wrapper retries errors of the remote service only: a
\* pass counted by retry is a pass in which a remote request was made, and
\* an exception of another kind, such as an I/O error on the audio file,
\* leaves the wrapper in the pass in which it is raised, with no remote
\* request in that pass and none after it in that call; raised by the
\* transcription of a segment, it starts the whole-file fallback at once.
C21_OnlyRemoteErrorsRetried ==
    /\ [][(pc \in {"transcribe", "no_segments", "fallback"} /\ retry' = retry + 1) =>
              /\ calls'.remote = calls.remote + 1
              /\ pc' = pc
              /\ wrapped' = wrapped]_vars
    /\ [][(wrapped' # wrapped /\ wrapped'.exc = [type |-> "OSError", n |-> 0]) =>
              /\ wrapped'.outcome = "raised"
              /\ wrapped'.requests = requests
              /\ wrapped'.failures = retry
              /\ calls'.remote = calls.remote
              /\ retry' = 0
              /\ exc' = [type |-> "OSError", n |-> 0]
              /\ pc = "transcribe" =>
                     /\ wrapped'.fn = "transcribe"
                     /\ pc' = "fallback"
                     /\ calls'.transcribe = calls.transcribe
                     /\ calls'.transcribe_raw = calls.transcribe_raw + 1
                     /\ audio_output_path \in raw_paths'
              /\ pc = "fallback" =>
                     /\ pc' = "done"
                     /\ response'.status = 500]_vars
    /\ [](exc.type = "Error" => (Finished /\ response.status = 500))

\* C21 witness: the second segment raised an I/O error on its third pass,
\* after two retried remote errors, and the fallback has started
C21_Witness ==
    /\ pc = "fallback"
    /\ wrapped.fn = "transcribe"
    /\ wrapped.outcome = "raised"
    /\ wrapped.exc = OSError
    /\ wrapped.failures = 2
    /\ Len(transcript_chunks) = 1
    /\ retry = 0
    /\ calls.transcribe_raw = 1

====
